---- MODULE Spec2Model ----
(***************************************************************************)
(* State-machine model of the Hiremote operations portal (app.py): the     *)
(* users and submissions tables, the session cookie, the upload directory, *)
(* the clock, and one action per HTTP route.                               *)
(*                                                                         *)
(* Text values are modelled as follows.                                    *)
(*  - ordinary strings are TLA+ strings; str.lower() and str.strip() are   *)
(*    tables over the strings the model uses (Lower, Strip);               *)
(*  - a file name is a sequence of tokens (maximal alphanumeric runs, ".", *)
(*    "/", " ", and a non-ASCII character);                                *)
(*  - an ISO timestamp is the sequence <<second>> or <<second, micro>>     *)
(*    (isoformat() leaves the fraction out when it is zero); text          *)
(*    comparison is the lexicographic order on such sequences, a proper    *)
(*    prefix being smaller;                                                *)
(*  - a JSON value is a tagged record (JNull, JStr, JNum, JList, JObj).    *)
(***************************************************************************)
EXTENDS Integers, Sequences, FiniteSets, TLC

VARIABLES users, submissions, session, uploads, now, env, last

vars == <<users, submissions, session, uploads, now, env, last>>

(***************************************************************************)
(* Bounds of the model.                                                    *)
(***************************************************************************)
MaxSubs == 2
MaxTick == 1

\* the rows of the table, where the listing of the dashboard is cut short
MaxShifts == 6

\* the clock of the dashboard's specification, and the uploads it takes in a second
MaxClock == 5

PerSecond == 2

(***************************************************************************)
(* Program constants.                                                      *)
(***************************************************************************)
ALLOWED_EXTENSIONS ==
    {"png", "jpg", "jpeg", "gif", "mp4", "mov", "avi", "pdf", "doc", "docx", "txt"}

ROLE_EMPLOYEE == "employee"
ROLE_IRONHAND == "ironhand"
ROLE_CLIENT == "client"
PASSWORD_METHOD == "pbkdf2:sha256"
AI_MAX_CONTEXT_ITEMS == 6
DashboardLimit == 5
RecentLimit == 10
TopItemsLimit == 5

DEFAULT_USERS ==
    << [name |-> "Alex Employee", email |-> "employee@hiremote.com",
        password |-> "password123", role |-> ROLE_EMPLOYEE, store_number |-> "101"],
       [name |-> "Bianca Ironhand", email |-> "ironhand@hiremote.com",
        password |-> "operations123", role |-> ROLE_IRONHAND, store_number |-> "H1"],
       [name |-> "Chris Client", email |-> "client@hiremote.com",
        password |-> "clientaccess", role |-> ROLE_CLIENT, store_number |-> "101"] >>

(***************************************************************************)
(* Generic helpers.                                                        *)
(***************************************************************************)
Range(s) == {s[i] : i \in 1..Len(s)}

Min(a, b) == IF a <= b THEN a ELSE b

\* Python's s[:n]
Take(s, n) == SubSeq(s, 1, Min(n, Len(s)))

\* Python's s[-n:] for n > 0
LastN(s, n) == SubSeq(s, Len(s) - Min(n, Len(s)) + 1, Len(s))

\* str.lower() on the strings of the model
Lower(s) ==
    CASE s = "EMPLOYEE@HIREMOTE.COM" -> "employee@hiremote.com"
      [] s = "Client@Hiremote.com" -> "client@hiremote.com"
      [] s = "PNG" -> "png"
      [] s = "Jpg" -> "jpg"
      [] s = "EXE" -> "exe"
      [] OTHER -> s

\* str.strip() on the strings of the model
Strip(s) ==
    CASE s = "  " -> ""
      [] s = " hi " -> "hi"
      [] s = " ok" -> "ok"
      [] OTHER -> s

(***************************************************************************)
(* Passwords: generate_password_hash salts and stretches the password; the *)
(* hash verifies exactly the password it was made from.                    *)
(***************************************************************************)
generate_password_hash(password, method) == <<method, password>>

check_password_hash(pwhash, password) == pwhash[2] = password

(***************************************************************************)
(* Time: the clock counts half seconds; utcnow().isoformat() and the second- *)
(* resolution strftime of the upload directory are derived from it.        *)
(***************************************************************************)
SecondOf(t) == t \div 2

MicroOf(t) == t % 2

isoformat(t) == IF MicroOf(t) = 0 THEN <<SecondOf(t)>> ELSE <<SecondOf(t), MicroOf(t)>>

strftime(t) == SecondOf(t)

\* text comparison a <= b of two timestamps or timestamp prefixes
RECURSIVE TextLeq(_, _)
TextLeq(a, b) ==
    IF a = <<>> THEN TRUE
    ELSE IF b = <<>> THEN FALSE
    ELSE IF a[1] # b[1] THEN a[1] < b[1]
    ELSE TextLeq(Tail(a), Tail(b))

\* SQLite's datetime(text): the timestamp without its fraction
sql_datetime(ts) == ts[1]

(***************************************************************************)
(* users table                                                             *)
(***************************************************************************)
RECURSIVE seed_from(_, _)
seed_from(table, defaults) ==
    IF defaults = <<>> THEN table
    ELSE LET user == Head(defaults)
             existing_users == {table[i].email : i \in 1..Len(table)}
         IN IF user.email \in existing_users
            THEN seed_from(table, Tail(defaults))
            ELSE seed_from(
                     Append(table,
                            [id |-> Len(table) + 1,
                             name |-> user.name,
                             email |-> Lower(user.email),
                             password_hash |->
                                 generate_password_hash(user.password, PASSWORD_METHOD),
                             role |-> user.role,
                             store_number |-> user.store_number]),
                     Tail(defaults))

seed_users == seed_from(<<>>, DEFAULT_USERS)

NoUser == [id |-> 0]

\* SELECT * FROM users WHERE id = ?  (fetchone)
UserById(uid) ==
    IF \E i \in 1..Len(users) : users[i].id = uid
    THEN users[CHOOSE i \in 1..Len(users) : users[i].id = uid]
    ELSE NoUser

\* SELECT * FROM users WHERE email = ?  (fetchone; email is UNIQUE)
UserByEmail(email) ==
    IF \E i \in 1..Len(users) : users[i].email = email
    THEN users[CHOOSE i \in 1..Len(users) : users[i].email = email]
    ELSE NoUser

\* session.get("user_id") resolved against the users table; 0 stands for no id
current_user == IF session = 0 THEN NoUser ELSE UserById(session)

login_required_any_role(role) == IF current_user = NoUser THEN "login" ELSE "ok"

\* the decorator's decision for a route that requires role (or "" for none)
login_required(role) ==
    LET user == current_user
    IN IF user = NoUser THEN "login"
       ELSE IF role # "" /\ user.role # role THEN "forbidden"
       ELSE "ok"

(***************************************************************************)
(* Optional values (Python None or a value) and their truthiness.          *)
(***************************************************************************)
None == <<>>

Some(v) == <<v>>

\* truthiness of an optional string: None and "" are falsy
TruthyStr(opt) == opt # None /\ opt[1] # ""

\* truthiness of an optional timestamp text: None and the empty text are falsy
TruthyText(opt) == opt # None /\ opt[1] # <<>>

\* request.args.get(name) or None
OrNoneStr(opt) == IF TruthyStr(opt) THEN opt ELSE None

OrNoneText(opt) == IF TruthyText(opt) THEN opt ELSE None

(***************************************************************************)
(* Uploaded files                                                          *)
(***************************************************************************)
NoFile == [present |-> FALSE, filename |-> <<>>, mimetype |-> ""]

File(filename, mimetype) == [present |-> TRUE, filename |-> filename, mimetype |-> mimetype]

RECURSIVE LStrip(_, _)
LStrip(s, chars) ==
    IF s # <<>> /\ Head(s) \in chars THEN LStrip(Tail(s), chars) ELSE s

RECURSIVE RStrip(_, _)
RStrip(s, chars) ==
    IF s # <<>> /\ s[Len(s)] \in chars THEN RStrip(SubSeq(s, 1, Len(s) - 1), chars) ELSE s

\* "_".join(s.split()) on a token sequence without leading or trailing blanks
RECURSIVE JoinSplit(_)
JoinSplit(s) ==
    IF s = <<>> THEN <<>>
    ELSE IF Head(s) = " "
         THEN (IF Len(s) >= 2 /\ s[2] = " " THEN JoinSplit(Tail(s))
               ELSE <<"_">> \o JoinSplit(Tail(s)))
         ELSE <<Head(s)>> \o JoinSplit(Tail(s))

IsAscii(c) == c # "nonascii"

IsSafeChar(c) == c # "$"

\* werkzeug.utils.secure_filename
secure_filename(filename) ==
    LET ascii == SelectSeq(filename, IsAscii)
        spaced == [i \in 1..Len(ascii) |-> IF ascii[i] = "/" THEN " " ELSE ascii[i]]
        joined == JoinSplit(RStrip(LStrip(spaced, {" "}), {" "}))
        kept == SelectSeq(joined, IsSafeChar)
    IN RStrip(LStrip(kept, {".", "_"}), {".", "_"})

\* filename.rsplit(".", 1)[1]
Extension(filename) ==
    LET dots == {i \in 1..Len(filename) : filename[i] = "."}
        lastDot == CHOOSE i \in dots : \A j \in dots : j <= i
    IN SubSeq(filename, lastDot + 1, Len(filename))

allowed_file(filename) ==
    /\ "." \in Range(filename)
    /\ Len(Extension(filename)) = 1
    /\ Lower(Extension(filename)[1]) \in ALLOWED_EXTENSIONS

\* files: the sequence of <<field_name, file>> in the order of the dict;
\* the result carries the metadata list, the paths written, and the error raised, if any
RECURSIVE save_loop(_, _, _)
save_loop(files, timestamp, acc) ==
    IF files = <<>> THEN acc
    ELSE LET field_name == Head(files)[1]
             file == Head(files)[2]
             filename == secure_filename(file.filename)
         IN IF ~file.present \/ file.filename = <<>>
            THEN save_loop(Tail(files), timestamp, acc)
            ELSE IF ~allowed_file(filename)
            THEN [acc EXCEPT !.raised = TRUE,
                             !.error = <<"Unsupported file type for", filename>>]
            ELSE save_loop(Tail(files), timestamp,
                     [acc EXCEPT
                        !.written = @ \cup {<<timestamp, filename>>},
                        !.saved_files = Append(@,
                            [field |-> field_name,
                             stored_name |-> <<timestamp, filename>>,
                             original_name |-> filename,
                             mime |-> file.mimetype])])

save_uploaded_files_rollback(files, t) ==
    LET result == save_loop(files, strftime(t),
                     [raised |-> FALSE, error |-> <<>>, written |-> {}, saved_files |-> <<>>])
    IN IF result.raised THEN [result EXCEPT !.written = {}] ELSE result

save_uploaded_files(files, t) ==
    save_loop(files, strftime(t),
              [raised |-> FALSE, error |-> <<>>, written |-> {}, saved_files |-> <<>>])

(***************************************************************************)
(* submissions table                                                       *)
(***************************************************************************)
json_dumps(payload) == <<"json", payload>>

store_submission_replacing(user, category, report_type, notes, payload, t) ==
    << [id |-> 1,
        user_id |-> user.id,
        employee_name |-> user.name,
        store_number |-> user.store_number,
        category |-> category,
        report_type |-> report_type,
        notes |-> notes,
        payload |-> json_dumps(payload),
        created_at |-> isoformat(t)] >>

\* the table after store_submission(user, category, report_type, notes, payload)
store_submission(user, category, report_type, notes, payload, t) ==
    Append(submissions,
           [id |-> Len(submissions) + 1,
            user_id |-> user.id,
            employee_name |-> user.name,
            store_number |-> user.store_number,
            category |-> category,
            report_type |-> report_type,
            notes |-> notes,
            payload |-> json_dumps(payload),
            created_at |-> isoformat(t)])

Filters(store, category, employee, start, end) ==
    [store |-> store, category |-> category, employee |-> employee,
     start |-> start, end |-> end]

NoFilters == Filters(None, None, None, None, None)

\* the WHERE clause fetch_submissions builds
RowMatches(row, f) ==
    /\ TruthyStr(f.store) => row.store_number = f.store[1]
    /\ TruthyStr(f.category) => row.category = f.category[1]
    /\ TruthyStr(f.employee) => row.employee_name = f.employee[1]
    /\ TruthyText(f.start) => TextLeq(f.start[1], row.created_at)
    /\ TruthyText(f.end) => TextLeq(row.created_at, f.end[1])

\* ORDER BY datetime(created_at) DESC: the key has second resolution, and SQL
\* leaves the order of rows with equal keys open
OrderedByKey(rows) ==
    \A a, b \in 1..Len(rows) :
        a < b => sql_datetime(rows[a].created_at) >= sql_datetime(rows[b].created_at)

\* the orders in which the rows numbered in S can be listed
RECURSIVE Perms(_)
Perms(S) ==
    IF S = {} THEN {<<>>}
    ELSE UNION {{<<i>> \o p : p \in Perms(S \ {i})} : i \in S}

\* every list fetch_submissions may return for the filters f
fetch_submissions(f) ==
    LET M == {i \in 1..Len(submissions) : RowMatches(submissions[i], f)}
    IN {rows \in {[k \in 1..Len(p) |-> submissions[p[k]]] : p \in Perms(M)} :
           OrderedByKey(rows)}

Ids(rows) == [k \in 1..Len(rows) |-> rows[k].id]

(***************************************************************************)
(* JSON values                                                             *)
(***************************************************************************)
JNull == [t |-> "null"]

JStr(s) == [t |-> "str", s |-> s]

JNum(n) == [t |-> "num", n |-> n]

JList(l) == [t |-> "list", l |-> l]

\* f: a function from the keys present to their values
JObj(f) == [t |-> "obj", f |-> f]

EmptyObj == JObj(<<>>)

\* Python truthiness of a JSON value
Truthy(v) ==
    CASE v.t = "null" -> FALSE
      [] v.t = "str" -> v.s # ""
      [] v.t = "num" -> v.n # 0
      [] v.t = "list" -> v.l # <<>>
      [] v.t = "obj" -> DOMAIN v.f # {}

\* dict.get(key): None when the key is absent
Get(obj, key) == IF key \in DOMAIN obj.f THEN obj.f[key] ELSE JNull

\* the number a numeric string denotes, for the strings of the model
IsNumeric(s) == s \in {"12"}

NumberOf(s) == CASE s = "12" -> 12 [] OTHER -> 0

\* float(value) or 0.0 on None, TypeError and ValueError; amounts are whole cents
safe_float(value) ==
    CASE value.t = "num" -> value.n
      [] value.t = "str" -> (IF IsNumeric(value.s) THEN NumberOf(value.s) ELSE 0)
      [] OTHER -> 0

\* int(value) or 0 on None, TypeError and ValueError
safe_int(value) ==
    CASE value.t = "num" -> value.n
      [] value.t = "str" -> (IF IsNumeric(value.s) THEN NumberOf(value.s) ELSE 0)
      [] OTHER -> 0

\* round(x, 2) of an amount counted in whole cents
round2(x) == x

RECURSIVE SumSeq(_)
SumSeq(s) == IF s = <<>> THEN 0 ELSE Head(s) + SumSeq(Tail(s))

(***************************************************************************)
(* POS summary.  A query outcome is [fault, rows]: the analytics store's   *)
(* answer to that query.                                                   *)
(***************************************************************************)
Outcome(fault, rows) == [fault |-> fault, rows |-> rows]

\* a query issued to the analytics store, with the answer it got
Query(table, answer) == [table |-> table, answer |-> answer]

\* item_totals after the grouping loop, in insertion order
RECURSIVE group_items(_, _)
group_items(item_rows, totals) ==
    IF item_rows = <<>> THEN totals
    ELSE LET row == Head(item_rows)
             name == IF Truthy(Get(row, "item_name")) THEN Get(row, "item_name").s
                     ELSE IF Truthy(Get(row, "item_sku")) THEN Get(row, "item_sku").s
                     ELSE "Unknown item"
             known == \E i \in 1..Len(totals) : totals[i].item_name = name
             base == IF known THEN totals
                     ELSE Append(totals,
                                 [item_name |-> name, quantity |-> 0, gross_sales |-> 0])
             at == CHOOSE i \in 1..Len(base) : base[i].item_name = name
         IN group_items(Tail(item_rows),
                [base EXCEPT ![at].quantity = @ + safe_int(Get(row, "quantity")),
                             ![at].gross_sales = @ + safe_float(Get(row, "gross_sales"))])

\* sorted(items, key=quantity, reverse=True): stable, larger quantities first
RECURSIVE sort_by_quantity(_)
sort_by_quantity(items) ==
    IF items = <<>> THEN <<>>
    ELSE LET best == CHOOSE i \in 1..Len(items) :
                         /\ \A j \in 1..Len(items) : items[j].quantity <= items[i].quantity
                         /\ \A j \in 1..(i - 1) : items[j].quantity < items[i].quantity
             rest == [k \in 1..(Len(items) - 1) |-> IF k < best THEN items[k] ELSE items[k + 1]]
         IN <<items[best]>> \o sort_by_quantity(rest)

\* the summary load_pos_summary returns once the daily query has answered
pos_totals(t, daily_rows, item_rows) ==
    LET top_items == Take(sort_by_quantity(group_items(item_rows, <<>>)), TopItemsLimit)
        totals ==
           [status |-> "ok",
            window_start |-> <<"30 days before", SecondOf(t)>>,
            days |-> Len(daily_rows),
            gross_sales |-> round2(SumSeq([i \in 1..Len(daily_rows) |->
                               safe_float(Get(daily_rows[i], "gross_sales"))])),
            net_sales |-> round2(SumSeq([i \in 1..Len(daily_rows) |->
                               safe_float(Get(daily_rows[i], "net_sales"))])),
            transactions |-> SumSeq([i \in 1..Len(daily_rows) |->
                               safe_int(Get(daily_rows[i], "transactions"))]),
            items_sold |-> SumSeq([i \in 1..Len(daily_rows) |->
                               safe_int(Get(daily_rows[i], "items_sold"))])]
    IN IF top_items # <<>>
       THEN [status |-> "ok",
             window_start |-> totals.window_start,
             days |-> totals.days,
             gross_sales |-> totals.gross_sales,
             net_sales |-> totals.net_sales,
             transactions |-> totals.transactions,
             items_sold |-> totals.items_sold,
             top_items |-> top_items]
       ELSE totals

\* a variant in which a fault of the item query is as fatal as one of the daily query
load_pos_summary_strict(store_id, t, daily, item) ==
    IF ~env.supabase
    THEN [summary |-> [status |-> "not_configured"], queries |-> <<>>]
    ELSE IF daily.fault
    THEN [summary |-> [status |-> "unavailable"], queries |-> <<Query("pos_daily_sales", daily)>>]
    ELSE [summary |-> IF item.fault THEN [status |-> "unavailable"]
                      ELSE pos_totals(t, daily.rows, item.rows),
          queries |-> <<Query("pos_daily_sales", daily), Query("pos_item_sales", item)>>]

\* the result carries the summary and the queries issued, in order
load_pos_summary(store_id, t, daily, item) ==
    IF ~env.supabase
    THEN [summary |-> [status |-> "not_configured"], queries |-> <<>>]
    ELSE IF daily.fault
    THEN [summary |-> [status |-> "unavailable"], queries |-> <<Query("pos_daily_sales", daily)>>]
    ELSE [summary |-> pos_totals(t, daily.rows, IF item.fault THEN <<>> ELSE item.rows),
          queries |-> <<Query("pos_daily_sales", daily), Query("pos_item_sales", item)>>]

\* notes[:200] on the strings of the model
Truncate200(s) ==
    CASE s = "notes of 201 characters" -> "notes cut to 200 characters"
      [] OTHER -> s

summarize_submissions(rows) ==
    [k \in 1..Len(rows) |->
        [category |-> rows[k].category,
         report_type |-> rows[k].report_type,
         employee_name |-> rows[k].employee_name,
         store_number |-> rows[k].store_number,
         notes |-> Truncate200(rows[k].notes),
         created_at |-> rows[k].created_at]]

\* fetched: the list fetch_submissions(store=store_id) returned; pos: load_pos_summary's result
build_store_context(user, fetched, pos, t) ==
    LET recent_rows == Take(fetched, RecentLimit)
        categories == {recent_rows[k].category : k \in 1..Len(recent_rows)}
    IN [store_id |-> user.store_number,
        generated_at |-> isoformat(t),
        recent_activity |-> summarize_submissions(recent_rows),
        activity_counts |->
            [c \in categories |->
                Cardinality({k \in 1..Len(recent_rows) : recent_rows[k].category = c})],
        pos_summary |-> pos.summary]

(***************************************************************************)
(* Assistant bridge                                                        *)
(***************************************************************************)
ChatResponse(output_text, output) == [output_text |-> output_text, output |-> output]

\* the first non-empty text of the message items of response.output, or ""
RECURSIVE first_text(_)
first_text(output) ==
    IF output = <<>> THEN ""
    ELSE LET item == Head(output)
             texts == SelectSeq(item.content, LAMBDA x : x # "")
         IN IF item.type = "message" /\ texts # <<>> THEN Head(texts)
            ELSE first_text(Tail(output))

extract_output_text(response) ==
    IF response.output_text # "" THEN response.output_text ELSE first_text(response.output)

\* the loop over history[-AI_MAX_CONTEXT_ITEMS:]: the messages appended, or the
\* exception an entry raised (AttributeError, TypeError)
RECURSIVE history_loop(_, _)
history_loop(items, acc) ==
    IF items = <<>> THEN acc
    ELSE LET item == Head(items)
         IN IF item.t # "obj" THEN [acc EXCEPT !.raised = TRUE]
            ELSE LET role == Get(item, "role")
                     raw == Get(item, "content")
                 IN IF Truthy(raw) /\ raw.t # "str" THEN [acc EXCEPT !.raised = TRUE]
                    ELSE IF role.t \in {"list", "obj"} THEN [acc EXCEPT !.raised = TRUE]
                    ELSE LET content == IF Truthy(raw) THEN Strip(raw.s) ELSE ""
                         IN IF ~(role.t = "str" /\ role.s \in {"user", "assistant"})
                               \/ content = ""
                            THEN history_loop(Tail(items), acc)
                            ELSE history_loop(Tail(items),
                                    [acc EXCEPT !.messages =
                                        Append(@, [role |-> role.s, text |-> content])])

history_messages(history) ==
    history_loop(LastN(history, AI_MAX_CONTEXT_ITEMS), [raised |-> FALSE, messages |-> <<>>])

SystemPrompt == "You are the Iron Hand store assistant. Answer only using the provided store context."

FallbackReply == "I couldn't generate a response with the current data."

(***************************************************************************)
(* Requests and responses.  `last` is the last request served: its route,  *)
(* the session user id it came with, its inputs, and the response.         *)
(***************************************************************************)
Response(route, req) ==
    [route |-> route, uid |-> session, req |-> req,
     status |-> 200, location |-> "", view |-> "", flash |-> <<>>,
     rows |-> <<>>, stores |-> {}, body |-> <<>>,
     queries |-> <<>>, chat |-> <<>>]

Redirect(route, req, location, flash) ==
    [Response(route, req) EXCEPT !.status = 302, !.location = location, !.flash = flash]

Abort(route, req, status) == [Response(route, req) EXCEPT !.status = status]

Json(route, req, status, body) ==
    [Response(route, req) EXCEPT !.status = status, !.view = "json", !.body = body]

\* what the login_required wrapper answers when it does not call the view
Denied(route, req, decision) ==
    IF decision = "login"
    THEN Redirect(route, req, "login", <<"Please log in to continue.">>)
    ELSE Abort(route, req, 403)

\* the deployment's configuration: whether the analytics and the chat credentials are set
Environments ==
    {[supabase |-> TRUE, openai |-> TRUE], [supabase |-> FALSE, openai |-> TRUE],
     [supabase |-> TRUE, openai |-> FALSE]}

Init ==
    /\ users = seed_users
    /\ submissions = <<>>
    /\ session \in {0, 4}
    /\ uploads = {}
    /\ now = 0
    /\ env \in Environments
    /\ last = Response("", <<>>)

\* the users a session user id resolves to (none for no id or an unknown id)
Resolved(uid) == {u \in Range(users) : uid # 0 /\ u.id = uid}

\* the table has fewer than n rows
Room(n) == Len(submissions) < n

\* the clock shows less than n
Before(n) == now < n

\* fewer than n rows were stored in the second the clock shows
Paced(n) ==
    Cardinality({i \in 1..Len(submissions) :
                    sql_datetime(submissions[i].created_at) = SecondOf(now)}) < n

\* time passes
Tick ==
    /\ now' = now + 1
    /\ UNCHANGED <<users, submissions, session, uploads, env, last>>

\* GET /
Index ==
    /\ last' = IF session # 0 THEN Redirect("index", <<>>, "dashboard", <<>>)
               ELSE Redirect("index", <<>>, "login", <<>>)
    /\ UNCHANGED <<users, submissions, session, uploads, now, env>>

\* GET /login
LoginForm ==
    /\ last' = [Response("login", [method |-> "GET"]) EXCEPT !.view = "login.html"]
    /\ UNCHANGED <<users, submissions, session, uploads, now, env>>

normalize_email_verbatim(form_email) == form_email

\* request.form.get("email", "").lower()
normalize_email(form_email) == Lower(form_email)

\* POST /login
Login(form_email, form_password) ==
    LET req == [method |-> "POST", email |-> form_email, password |-> form_password]
        email == normalize_email(form_email)
        user == UserByEmail(email)
    IN IF user # NoUser /\ check_password_hash(user.password_hash, form_password)
       THEN /\ session' = user.id
            /\ last' = Redirect("login", req, "dashboard", <<"Welcome back!">>)
            /\ UNCHANGED <<users, submissions, uploads, now, env>>
       ELSE /\ last' = [Response("login", req) EXCEPT
                            !.view = "login.html", !.flash = <<"Invalid email or password.">>]
            /\ UNCHANGED <<users, submissions, session, uploads, now, env>>

\* GET /logout
Logout ==
    /\ session' = 0
    /\ last' = Redirect("logout", <<>>, "login", <<"Signed out successfully.">>)
    /\ UNCHANGED <<users, submissions, uploads, now, env>>

\* GET /dashboard
Dashboard ==
    LET decision == login_required("")
        user == current_user
    IN /\ UNCHANGED <<users, submissions, session, uploads, now, env>>
       /\ IF decision # "ok" THEN last' = Denied("dashboard", <<>>, decision)
          ELSE IF user.role = ROLE_EMPLOYEE
          THEN \E rows \in fetch_submissions(
                              Filters(Some(user.store_number), Some("shift"),
                                      Some(user.name), None, None)) :
                  last' = [Response("dashboard", <<>>) EXCEPT
                              !.view = "dashboard_employee.html",
                              !.rows = Ids(Take(rows, DashboardLimit))]
          ELSE IF user.role = ROLE_IRONHAND
          THEN \E rows \in fetch_submissions(NoFilters) :
                  last' = [Response("dashboard", <<>>) EXCEPT
                              !.view = "dashboard_ironhand.html",
                              !.rows = Ids(rows),
                              !.stores = {rows[k].store_number : k \in 1..Len(rows)}]
          ELSE IF user.role = ROLE_CLIENT
          THEN last' = Redirect("dashboard", <<>>, "client_reports", <<>>)
          ELSE last' = Abort("dashboard", <<>>, 403)

shift_complete_two(saved_files) == ~(Len(saved_files) < 2)

\* the end-of-shift upload carries all three files
shift_complete(saved_files) == ~(Len(saved_files) < 3)

\* POST /upload/shift
UploadShift(notes, scratcher_video, cash_photo, sales_photo) ==
    LET req == [notes |-> notes, scratcher_video |-> scratcher_video,
                cash_photo |-> cash_photo, sales_photo |-> sales_photo]
        decision == login_required(ROLE_EMPLOYEE)
        user == current_user
        result == save_uploaded_files(<< <<"scratcher_video", scratcher_video>>,
                                         <<"cash_photo", cash_photo>>,
                                         <<"sales_photo", sales_photo>> >>, now)
        payload == [files |-> result.saved_files, notes |-> notes]
    IN /\ UNCHANGED <<users, session, now, env>>
       /\ IF decision # "ok"
          THEN /\ last' = Denied("upload_shift", req, decision)
               /\ UNCHANGED <<submissions, uploads>>
          ELSE /\ uploads' = uploads \cup result.written
               /\ IF result.raised
                  THEN /\ last' = Redirect("upload_shift", req, "dashboard", result.error)
                       /\ UNCHANGED submissions
                  ELSE IF ~shift_complete(result.saved_files)
                  THEN /\ last' = Redirect("upload_shift", req, "dashboard",
                                  <<"All three files are required for end-of-shift upload.">>)
                       /\ UNCHANGED submissions
                  ELSE /\ submissions' =
                              store_submission(user, "shift", "shift", notes, payload, now)
                       /\ last' = Redirect("upload_shift", req, "dashboard",
                                           <<"Shift submitted. Great work!">>)

\* POST /upload/report; report_type is None when the form leaves it out
UploadReport(form_report_type, summary, notes, report_file) ==
    LET req == [report_type |-> form_report_type, summary |-> summary,
                notes |-> notes, report_file |-> report_file]
        decision == login_required(ROLE_IRONHAND)
        user == current_user
        report_type == IF form_report_type = None THEN "daily" ELSE form_report_type[1]
        given == report_file.present /\ report_file.filename # <<>>
        result == IF given THEN save_uploaded_files(<< <<"report_file", report_file>> >>, now)
                  ELSE [raised |-> FALSE, error |-> <<>>, written |-> {}, saved_files |-> <<>>]
        payload == [summary |-> summary, files |-> result.saved_files]
    IN /\ UNCHANGED <<users, session, now, env>>
       /\ IF decision # "ok"
          THEN /\ last' = Denied("upload_report", req, decision)
               /\ UNCHANGED <<submissions, uploads>>
          ELSE /\ uploads' = uploads \cup result.written
               /\ IF result.raised
                  THEN /\ last' = Redirect("upload_report", req, "dashboard", result.error)
                       /\ UNCHANGED submissions
                  ELSE /\ submissions' =
                              store_submission(user, report_type, report_type, notes,
                                               payload, now)
                       /\ last' = Redirect("upload_report", req, "dashboard",
                                           <<report_type, "report sent!">>)

reports_store_as_asked(user, args) == OrNoneStr(args.store_number)

\* the store filter of /reports: the client's own store, or the one asked for
reports_store(user, args) ==
    IF user.role = ROLE_CLIENT THEN Some(user.store_number)
    ELSE OrNoneStr(args.store_number)

\* GET /reports; args: the query parameters, each None when absent
Reports(args) ==
    LET decision == login_required("")
        user == current_user
        category == OrNoneStr(args.category)
        employee == OrNoneStr(args.employee)
        start == OrNoneText(args.start)
        end == OrNoneText(args.end)
        store_number == reports_store(user, args)
    IN /\ UNCHANGED <<users, submissions, session, uploads, now, env>>
       /\ IF decision # "ok" THEN last' = Denied("reports", args, decision)
          ELSE IF user.role \notin {ROLE_CLIENT, ROLE_IRONHAND}
          THEN last' = Abort("reports", args, 403)
          ELSE \E rows \in fetch_submissions(
                              Filters(store_number, category, employee, start, end)) :
                  last' = [Response("reports", args) EXCEPT
                              !.view = "dashboard_client.html",
                              !.rows = Ids(rows)]

\* GET /files/<path>; path: whether it is absolute, whether a segment is "..",
\* and the stored name it denotes under the upload root
DownloadFile(path) ==
    LET decision == login_required("")
    IN /\ UNCHANGED <<users, submissions, session, uploads, now, env>>
       /\ IF decision # "ok" THEN last' = Denied("download_file", path, decision)
          ELSE IF path.is_absolute \/ path.has_parent_segment
          THEN last' = Abort("download_file", path, 400)
          ELSE IF path.stored_name \notin uploads
          THEN last' = Abort("download_file", path, 404)
          ELSE last' = [Response("download_file", path) EXCEPT !.view = "file"]

\* a variant that tries the chat call a second time when it faults
responses_create_retry(call, chat_fault, response) ==
    LET attempt == [input |-> call.input, metadata |-> call.metadata,
                    answer |-> [fault |-> chat_fault, response |-> response]]
    IN IF chat_fault THEN <<attempt, attempt>> ELSE <<attempt>>

\* client.responses.create inside its try: the calls made to the chat service, each
\* with the answer it got (a fault or a response)
responses_create(call, chat_fault, response) ==
    << [input |-> call.input, metadata |-> call.metadata,
        answer |-> [fault |-> chat_fault, response |-> response]] >>

\* POST /api/assistant; body: None when the request carries no parsable JSON, else
\* the JSON value; daily, item: the analytics store's answers; chat_fault, response:
\* the chat service's answer
Assistant(body, daily, item, chat_fault, response) ==
    LET req == [body |-> body]
        route == "assistant"
        decision == login_required("")
        user == current_user
        payload == IF body = None \/ ~Truthy(body[1]) THEN EmptyObj ELSE body[1]
        raw == Get(payload, "message")
        message == IF Truthy(raw) THEN Strip(raw.s) ELSE ""
        given == Get(payload, "history")
        history == IF Truthy(given) /\ given.t = "list" THEN given.l ELSE <<>>
        pos == load_pos_summary(user.store_number, now, daily, item)
        filtered == history_messages(history)
    IN /\ UNCHANGED <<users, submissions, session, uploads, now, env>>
       /\ IF decision # "ok" THEN last' = Denied(route, req, decision)
          ELSE IF payload.t # "obj" THEN last' = Abort(route, req, 500)
          ELSE IF Truthy(raw) /\ raw.t # "str" THEN last' = Abort(route, req, 500)
          ELSE IF message = ""
          THEN last' = Json(route, req, 400, [error |-> "Message is required."])
          ELSE \E fetched \in fetch_submissions(
                                 Filters(Some(user.store_number), None, None, None, None)) :
                 LET context == build_store_context(user, fetched, pos, now)
                     messages ==
                         << [role |-> "system", text |-> SystemPrompt],
                            [role |-> "system", text |-> <<"Store context JSON:", context>>] >>
                         \o filtered.messages
                         \o << [role |-> "user", text |-> message] >>
                     call == [input |-> messages,
                              metadata |-> [store_id |-> user.store_number,
                                            user_id |-> user.id]]
                     calls == responses_create(call, chat_fault, response)
                     text == Strip(extract_output_text(response))
                     reply == IF text = "" THEN FallbackReply ELSE text
                 IN IF ~env.openai
                    THEN last' = [Json(route, req, 500,
                                    [error |-> "OpenAI API key is not configured for this environment."])
                                  EXCEPT !.queries = pos.queries]
                    ELSE IF filtered.raised
                    THEN last' = [Abort(route, req, 500) EXCEPT !.queries = pos.queries]
                    ELSE IF chat_fault
                    THEN last' = [Json(route, req, 502,
                                    [error |-> "Assistant is temporarily unavailable."])
                                  EXCEPT !.queries = pos.queries, !.chat = calls]
                    ELSE last' = [Json(route, req, 200,
                                    [reply |-> reply, pos_status |-> context.pos_summary.status])
                                  EXCEPT !.queries = pos.queries, !.chat = calls]

(***************************************************************************)
(* Inputs                                                                  *)
(***************************************************************************)
Emails ==
    {"employee@hiremote.com", "EMPLOYEE@HIREMOTE.COM", "ironhand@hiremote.com",
     "client@hiremote.com", "Client@Hiremote.com", "nobody@hiremote.com", ""}

Passwords == {"password123", "operations123", "clientaccess", "wrong", ""}

Credentials ==
    {<<"employee@hiremote.com", "password123">>, <<"ironhand@hiremote.com", "operations123">>,
     <<"client@hiremote.com", "clientaccess">>}

ShotJpg == File(<<"shot", ".", "jpg">>, "image/jpeg")
CashPng == File(<<"cash", ".", "PNG">>, "image/png")
SalesPdf == File(<<"sales", ".", "pdf">>, "application/pdf")
VirusExe == File(<<"virus", ".", "EXE">>, "application/octet-stream")
\* ".jpg": sanitized to "jpg", which has no extension
DotJpg == File(<<".", "jpg">>, "image/jpeg")
\* "../shot.jpg": sanitized to "shot.jpg"
ParentShotJpg == File(<<".", ".", "/", "shot", ".", "jpg">>, "image/jpeg")
\* a file part with an empty file name
EmptyName == File(<<>>, "application/octet-stream")

Args(store_number, category, employee, start, end) ==
    [store_number |-> store_number, category |-> category, employee |-> employee,
     start |-> start, end |-> end]

NoArgs == Args(None, None, None, None, None)

Path(is_absolute, has_parent_segment, stored_name) ==
    [is_absolute |-> is_absolute, has_parent_segment |-> has_parent_segment,
     stored_name |-> stored_name]

Message(text) == JObj([message |-> text])

Chat(text, history) == JObj([message |-> text, history |-> JList(history)])

Entry(role, content) == JObj([role |-> role, content |-> content])

UserHi == Entry(JStr("user"), JStr(" hi "))
AssistantOk == Entry(JStr("assistant"), JStr(" ok"))
SystemEntry == Entry(JStr("system"), JStr("hi"))
BlankEntry == Entry(JStr("user"), JStr("  "))

DailyRow(gross, net, transactions, items) ==
    JObj([gross_sales |-> gross, net_sales |-> net,
          transactions |-> transactions, items_sold |-> items])

ItemRow(name, sku, quantity, gross) ==
    JObj([item_name |-> name, item_sku |-> sku, quantity |-> quantity, gross_sales |-> gross])

DailyFault == Outcome(TRUE, <<>>)

DailyRows ==
    Outcome(FALSE, <<DailyRow(JNum(1050), JNum(900), JNum(3), JNum(7)),
                     DailyRow(JStr("12"), JNull, JStr("n/a"), JNum(2))>>)

ItemFault == Outcome(TRUE, <<>>)

NoItems == Outcome(FALSE, <<>>)

ItemRows ==
    Outcome(FALSE, <<ItemRow(JStr("Cola"), JStr("C1"), JNum(2), JNum(300)),
                     ItemRow(JNull, JStr("S9"), JNum(5), JNum(500)),
                     ItemRow(JStr("Cola"), JNull, JNum(1), JNum(150))>>)

\* the chat service's answers: <<fault, response>>
ChatFault == <<TRUE, ChatResponse("", <<>>)>>

ChatText == <<FALSE, ChatResponse(" ok", <<>>)>>

ChatItems ==
    <<FALSE, ChatResponse("", <<[type |-> "reasoning", content |-> <<"hi">>],
                               [type |-> "message", content |-> <<"", "ok">>]>>)>>

ChatEmpty == <<FALSE, ChatResponse("", <<>>)>>

\* a response whose text is only whitespace
ChatBlank == <<FALSE, ChatResponse("  ", <<>>)>>

(***************************************************************************)
(* The portal: every route, each with a few inputs.                        *)
(***************************************************************************)
Next ==
    \/ Before(MaxTick) /\ Tick
    \/ Index
    \/ LoginForm
    \/ \E c \in Credentials \cup {<<"nobody@hiremote.com", "wrong">>} : Login(c[1], c[2])
    \/ Logout
    \/ Dashboard
    \/ Room(MaxSubs) /\ \E b \in {CashPng, NoFile, VirusExe} :
                            UploadShift("all good", ShotJpg, b, SalesPdf)
    \/ Room(MaxSubs) /\ \E f \in {NoFile, VirusExe} : UploadReport(None, "summary", "", f)
    \/ Reports(Args(Some("999"), None, None, None, None))
    \/ DownloadFile(Path(FALSE, FALSE, <<0, <<"shot", ".", "jpg">> >>))
    \/ \E b \in {None, Some(Message(JStr("hi")))} :
          Assistant(b, DailyRows, ItemRows, FALSE, ChatText[2])

Spec == Init /\ [][Next]_vars

(***************************************************************************)
(* Signing in: every combination of the e-mails and passwords.             *)
(***************************************************************************)
NextLogin ==
    \/ Index
    \/ LoginForm
    \/ \E e \in Emails, p \in Passwords : Login(e, p)
    \/ Logout
    \/ Dashboard

SpecLogin == Init /\ [][NextLogin]_vars

(***************************************************************************)
(* Uploads: present, absent, unnamed, renamed and rejected files.          *)
(***************************************************************************)
ShiftForms ==
    {<<"all good", ShotJpg, CashPng, SalesPdf>>,
     <<"", ShotJpg, CashPng, SalesPdf>>,
     <<"all good", ParentShotJpg, CashPng, SalesPdf>>,
     <<"all good", NoFile, CashPng, SalesPdf>>,
     <<"all good", ShotJpg, EmptyName, SalesPdf>>,
     <<"", NoFile, NoFile, NoFile>>,
     <<"all good", VirusExe, CashPng, SalesPdf>>,
     <<"all good", ShotJpg, VirusExe, SalesPdf>>,
     <<"all good", ShotJpg, CashPng, VirusExe>>,
     <<"all good", ShotJpg, DotJpg, SalesPdf>>,
     <<"", NoFile, CashPng, VirusExe>>}

ReportForms ==
    {<<None, NoFile>>, <<None, SalesPdf>>, <<None, EmptyName>>, <<None, VirusExe>>,
     <<Some("weekly"), DotJpg>>}

InitConfigured == Init /\ env.supabase /\ env.openai

NextUpload ==
    \/ Before(MaxTick) /\ Tick
    \/ Login("employee@hiremote.com", "password123")
    \/ Login("ironhand@hiremote.com", "operations123")
    \/ Room(MaxSubs) /\ \E f \in ShiftForms : UploadShift(f[1], f[2], f[3], f[4])
    \/ Room(MaxSubs) /\ \E f \in ReportForms : UploadReport(f[1], "summary", "", f[2])

SpecUpload == InitConfigured /\ [][NextUpload]_vars

(***************************************************************************)
(* Report browsing: the query parameters of /reports.                      *)
(***************************************************************************)
ReportArgs ==
    {Args(s, None, None, None, None) : s \in {None, Some(""), Some("101"), Some("H1"), Some("999")}}
    \cup {Args(None, c, None, None, None) : c \in {Some(""), Some("shift"), Some("daily")}}
    \cup {Args(None, None, e, None, None) : e \in {Some("Alex Employee"), Some("Bianca Ironhand")}}
    \cup {Args(None, None, None, a, None) : a \in {Some(<<>>), Some(<<0>>), Some(<<0, 1>>), Some(<<1>>)}}
    \cup {Args(None, None, None, None, b) : b \in {Some(<<>>), Some(<<0>>), Some(<<0, 1>>), Some(<<1>>)}}
    \cup {Args(Some("H1"), Some("shift"), Some("Bianca Ironhand"), Some(<<0>>), Some(<<0, 1>>)),
          Args(Some("H1"), Some("daily"), None, Some(<<0, 1>>), Some(<<1>>))}

NextReports ==
    \/ Before(MaxTick) /\ Tick
    \/ \E c \in Credentials : Login(c[1], c[2])
    \/ Room(MaxSubs) /\ UploadShift("all good", ShotJpg, CashPng, SalesPdf)
    \/ Room(MaxSubs) /\ \E r \in {None, Some("shift")} : UploadReport(r, "summary", "", NoFile)
    \/ Dashboard
    \/ \E a \in ReportArgs : Reports(a)

SpecReports == InitConfigured /\ [][NextReports]_vars

(***************************************************************************)
(* The assistant: request bodies, histories, and the answers of the        *)
(* analytics store and of the chat service.                                *)
(***************************************************************************)
Histories ==
    { <<>>,
      <<UserHi, SystemEntry, AssistantOk, BlankEntry>>,
      <<UserHi, AssistantOk, UserHi, AssistantOk, UserHi, AssistantOk, UserHi>>,
      <<UserHi, AssistantOk, UserHi, AssistantOk, UserHi, AssistantOk, BlankEntry>>,
      <<UserHi, JStr("hi")>> }

Bodies ==
    {None, Some(JNull), Some(JList(<<JNum(1)>>)), Some(EmptyObj),
     Some(Message(JNull)), Some(Message(JStr(""))), Some(Message(JStr("  "))),
     Some(Message(JNum(5))), Some(Message(JStr("hi"))),
     Some(JObj([message |-> JStr("hi"), history |-> JStr("hi")]))}
    \cup {Some(Chat(JStr(" hi "), h)) : h \in Histories}

\* the answers of the analytics store (daily, item) and of the chat service
Worlds ==
    {<<DailyFault, ItemRows, ChatText>>,
     <<DailyRows, ItemFault, ChatText>>,
     <<DailyRows, ItemRows, ChatFault>>,
     <<DailyRows, ItemRows, ChatItems>>,
     <<DailyRows, NoItems, ChatEmpty>>,
     <<DailyFault, ItemFault, ChatBlank>>}

NextAssistant ==
    \/ Before(MaxTick) /\ Tick
    \/ Login("employee@hiremote.com", "password123")
    \/ Login("ironhand@hiremote.com", "operations123")
    \/ Room(MaxSubs) /\ UploadShift("notes of 201 characters", ShotJpg, CashPng, SalesPdf)
    \/ \E b \in Bodies, w \in Worlds : Assistant(b, w[1], w[2], w[3][1], w[3][2])

SpecAssistant == Init /\ [][NextAssistant]_vars

(***************************************************************************)
(* The dashboard: enough shifts and reports for the listing to be cut.     *)
(***************************************************************************)
NextDashboard ==
    \/ Before(MaxClock) /\ Tick
    \/ Login("employee@hiremote.com", "password123")
    \/ Room(MaxShifts) /\ Paced(PerSecond) /\ UploadShift("all good", ShotJpg, CashPng, SalesPdf)
    \/ Dashboard

SpecDashboard == InitConfigured /\ [][NextDashboard]_vars

(***************************************************************************)
(* Properties.  A step serves a request when it changes anything but the   *)
(* clock.                                                                  *)
(***************************************************************************)
Served == last' # last \/ submissions' # submissions \/ uploads' # uploads \/ session' # session

GuardedRoutes ==
    {"dashboard", "upload_shift", "upload_report", "reports", "assistant", "download_file"}

\* the roles a route admits
RolesOf(route) ==
    CASE route = "upload_shift" -> {ROLE_EMPLOYEE}
      [] route = "upload_report" -> {ROLE_IRONHAND}
      [] route = "reports" -> {ROLE_CLIENT, ROLE_IRONHAND}
      [] OTHER -> {ROLE_EMPLOYEE, ROLE_IRONHAND, ROLE_CLIENT}

\* the response shows no trace of the route's handler body
BodyNotRun(l) ==
    /\ l.view = ""
    /\ l.rows = <<>>
    /\ l.stores = {}
    /\ l.body = <<>>
    /\ l.queries = <<>>
    /\ l.chat = <<>>

ToLogin(l) == l.status = 302 /\ l.location = "login"

C1Step ==
    (Served /\ last'.route \in GuardedRoutes) =>
        /\ Resolved(session) = {} =>
              /\ ToLogin(last')
              /\ BodyNotRun(last')
              /\ UNCHANGED <<submissions, uploads>>
        /\ \A u \in Resolved(session) :
              IF u.role \in RolesOf(last'.route)
              THEN last'.status # 403 /\ ~ToLogin(last')
              ELSE /\ last'.status = 403
                   /\ BodyNotRun(last')
                   /\ UNCHANGED <<submissions, uploads>>

\* C1: on every guarded route, a request whose session resolves to no user is
\* redirected to login without running the handler; a request whose user's role is
\* not the route's (/upload/shift: employee, /upload/report: ironhand, /reports:
\* client or ironhand) gets 403, writes no file and inserts no row; any signed-in
\* user is admitted to /dashboard, /api/assistant and /files/<path>.
C1_RoleGate == [][C1Step]_vars

\* an ironhand user posted a complete shift upload and got 403, the table still empty
C1_Witness ==
    /\ last.route = "upload_shift"
    /\ last.status = 403
    /\ last.uid = 2
    /\ last.req.cash_photo = CashPng
    /\ submissions = <<>>
    /\ uploads = {}

SuccessfulUpload(l) ==
    \/ l.route = "upload_shift" /\ l.flash = <<"Shift submitted. Great work!">>
    \/ l.route = "upload_report" /\ Len(l.flash) = 2 /\ l.flash[2] = "report sent!"

C10Rows ==
    \A i \in 1..Len(submissions) :
        \E u \in Range(users) :
            /\ submissions[i].user_id = u.id
            /\ submissions[i].employee_name = u.name
            /\ submissions[i].store_number = u.store_number

C10Step ==
    /\ users' = users
    /\ Len(submissions') >= Len(submissions)
    /\ SubSeq(submissions', 1, Len(submissions)) = submissions
    /\ (Served /\ SuccessfulUpload(last')) => Len(submissions') = Len(submissions) + 1
    /\ submissions' # submissions =>
          /\ SuccessfulUpload(last')
          /\ Len(submissions') = Len(submissions) + 1
          /\ submissions'[Len(submissions')].user_id = session

\* C10: every submission row references an existing user and carries that user's
\* name and store number; a successful upload adds exactly one row, written for the
\* signed-in user; no other step changes the table, no row is ever modified or
\* removed, and the users table never changes.
C10_Submissions == []C10Rows /\ [][C10Step]_vars

\* two rows, one by the employee and one by the ironhand user
C10_Witness ==
    /\ Len(submissions) = 2
    /\ submissions[1].user_id = 1
    /\ submissions[2].user_id = 2
    /\ submissions[2].store_number = "H1"

CaseInsensitiveEqual(a, b) == Lower(a) = Lower(b)

\* the users whose e-mail and password the submitted pair matches
LoginMatches(email, password) ==
    {u \in Range(users) :
        CaseInsensitiveEqual(email, u.email) /\ check_password_hash(u.password_hash, password)}

\* the content of the failed-login response
InvalidLogin(l) ==
    /\ l.status = 200
    /\ l.view = "login.html"
    /\ l.flash = <<"Invalid email or password.">>
    /\ l.location = ""
    /\ l.body = <<>>

LoginPost(l) == l.route = "login" /\ l.req.method = "POST"

C3Step ==
    /\ (Served /\ LoginPost(last')) =>
          LET matches == LoginMatches(last'.req.email, last'.req.password)
          IN IF matches # {}
             THEN /\ session' \in {u.id : u \in matches}
                  /\ last'.status = 302
                  /\ last'.location = "dashboard"
             ELSE /\ session' = session
                  /\ InvalidLogin(last')
    /\ (session' # session /\ session' # 0) =>
          /\ LoginPost(last')
          /\ session' \in {u.id : u \in LoginMatches(last'.req.email, last'.req.password)}

\* C3: POST /login sets the session user id to u exactly when the submitted e-mail
\* equals u's e-mail up to case and the password verifies against u's hash; when no
\* user matches (unknown e-mail or wrong password) the session is left as it was and
\* the response is the same fixed content in both cases.
C3_Login == [][C3Step]_vars

\* the employee signed in with the e-mail typed in capitals
C3_Witness ==
    /\ LoginPost(last)
    /\ last.req.email = "EMPLOYEE@HIREMOTE.COM"
    /\ last.status = 302
    /\ session = 1

Present(file) == file.present /\ file.filename # <<>>

Accepted(file) == allowed_file(secure_filename(file.filename))

StoredAs(file, t) == <<strftime(t), secure_filename(file.filename)>>

ShiftFields == <<"scratcher_video", "cash_photo", "sales_photo">>

\* the files of an upload request, in the order they are processed
FilesOf(l) ==
    IF l.route = "upload_shift"
    THEN <<l.req.scratcher_video, l.req.cash_photo, l.req.sales_photo>>
    ELSE <<l.req.report_file>>

\* a step that serves an upload request of a user the route admits
UploadStep(route) ==
    /\ last'.route = route
    /\ Served
    /\ \E u \in Resolved(session) : u.role \in RolesOf(route)

C4Step ==
    UploadStep("upload_shift") =>
        LET files == FilesOf(last')
        IN IF \A i \in 1..3 : Present(files[i]) /\ Accepted(files[i])
           THEN /\ Len(submissions') = Len(submissions) + 1
                /\ SubSeq(submissions', 1, Len(submissions)) = submissions
                /\ LET row == submissions'[Len(submissions')]
                       stored == row.payload[2].files
                   IN /\ row.category = "shift"
                      /\ row.notes = last'.req.notes
                      /\ Len(stored) = 3
                      /\ \A i \in 1..3 : stored[i].field = ShiftFields[i]
           ELSE /\ submissions' = submissions
                /\ last'.flash # <<>>
                /\ ~SuccessfulUpload(last')

\* C4: an employee's POST /upload/shift with all three named files present and of an
\* allowed type (judged on the sanitized name) appends exactly one row with category
\* "shift", the submitted notes and three payload files, one per field; with fewer
\* than three files present, or a present file rejected, it shows a message and
\* leaves the submissions table unchanged.
C4_ShiftUpload == [][C4Step]_vars

\* a complete upload, one file with a path in its name, stored with its notes
C4_Witness ==
    /\ last.route = "upload_shift"
    /\ last.req.scratcher_video = ParentShotJpg
    /\ SuccessfulUpload(last)
    /\ Len(submissions) = 1
    /\ submissions[1].notes = "all good"
    /\ submissions[1].category = "shift"

C9Step(route) ==
    UploadStep(route) =>
        LET files == FilesOf(last')
            bad == {i \in 1..Len(files) : Present(files[i]) /\ ~Accepted(files[i])}
            first == IF bad = {} THEN Len(files) + 1
                     ELSE CHOOSE i \in bad : \A j \in bad : i <= j
            before == {i \in 1..(first - 1) : Present(files[i])}
        IN /\ uploads' = uploads \cup {StoredAs(files[i], now) : i \in before}
           /\ bad # {} =>
                 /\ submissions' = submissions
                 /\ last'.flash =
                        <<"Unsupported file type for", secure_filename(files[first].filename)>>

\* C9: an upload saves the present files in order, skipping absent ones, up to the
\* first present file whose sanitized name has no allowed extension; that file and
\* the later ones are not written, the earlier ones stay on disk, the error names the
\* file, and the route inserts no row.
C9_PartialSave == [][C9Step("upload_shift") /\ C9Step("upload_report")]_vars

\* the third file was rejected: the first two are on disk and no row was inserted
C9_Witness ==
    /\ last.route = "upload_shift"
    /\ last.req.sales_photo = VirusExe
    /\ last.flash = <<"Unsupported file type for", <<"virus", ".", "EXE">> >>
    /\ uploads = {<<0, <<"shot", ".", "jpg">> >>, <<0, <<"cash", ".", "PNG">> >>}
    /\ submissions = <<>>

\* a step that serves GET /reports for a user of the given role
ReportsStep(role) ==
    /\ last'.route = "reports"
    /\ last' # last
    /\ \E u \in Resolved(session) : u.role = role

GivenStr(opt) == opt # None /\ opt[1] # ""

GivenText(opt) == opt # None /\ opt[1] # <<>>

\* the row satisfies every filter that is given (non-empty)
Satisfies(row, store, category, employee, start, end) ==
    /\ GivenStr(store) => row.store_number = store[1]
    /\ GivenStr(category) => row.category = category[1]
    /\ GivenStr(employee) => row.employee_name = employee[1]
    /\ GivenText(start) => TextLeq(start[1], row.created_at)
    /\ GivenText(end) => TextLeq(row.created_at, end[1])

\* ids: the list returned; wanted: the ids of the rows that should be listed
ListsExactly(ids, wanted) ==
    /\ Range(ids) = wanted
    /\ Len(ids) = Cardinality(wanted)

C2Step ==
    /\ ReportsStep(ROLE_CLIENT) =>
          LET a == last'.req
              own == (CHOOSE u \in Resolved(session) : TRUE).store_number
          IN /\ \A k \in 1..Len(last'.rows) :
                    submissions[last'.rows[k]].store_number = own
             /\ ListsExactly(last'.rows,
                    {i \in 1..Len(submissions) :
                        Satisfies(submissions[i], Some(own), a.category, a.employee,
                                  a.start, a.end)})
    /\ ReportsStep(ROLE_IRONHAND) =>
          LET a == last'.req
          IN ListsExactly(last'.rows,
                 {i \in 1..Len(submissions) :
                     Satisfies(submissions[i], a.store_number, a.category, a.employee,
                               a.start, a.end)})

\* C2: whatever store_number a client passes to GET /reports (absent, empty or any
\* value), the rows listed are exactly the rows of the client's own store that
\* satisfy the other filters; for an ironhand user the store_number filter is
\* applied as given.
C2_ClientStore == [][C2Step]_vars

\* the client asked for store H1, which has a row, and was shown the row of store 101
C2_Witness ==
    /\ last.route = "reports"
    /\ last.uid = 3
    /\ last.req.store_number = Some("H1")
    /\ Len(submissions) = 2
    /\ submissions[1].store_number = "H1"
    /\ submissions[2].store_number = "101"
    /\ last.rows = <<2>>

\* the listed rows are in descending order of created_at, compared as text
DescendingCreatedAt(ids) ==
    \A a, b \in 1..Len(ids) :
        a < b => TextLeq(submissions[ids[b]].created_at, submissions[ids[a]].created_at)

C5Step ==
    ReportsStep(ROLE_IRONHAND) =>
        LET a == last'.req
        IN /\ ListsExactly(last'.rows,
                  {i \in 1..Len(submissions) :
                      Satisfies(submissions[i], a.store_number, a.category, a.employee,
                                a.start, a.end)})
           /\ DescendingCreatedAt(last'.rows)

\* C5: fetch_submissions returns exactly the rows that satisfy the conjunction of the
\* non-empty filters (store, category, employee, start <= created_at <= end as text),
\* all rows when no filter is given, in descending order of created_at.
C5_FetchOrdered == [][C5Step]_vars

\* the request came from a signed-in user
Authenticated(l) == Resolved(l.uid) # {}

\* the body is a JSON object
IsObject(body) == body # None /\ body[1].t = "obj"

\* the message of the body is missing, empty or only whitespace
MessageBlank(body) ==
    \/ ~IsObject(body)
    \/ "message" \notin DOMAIN body[1].f
    \/ body[1].f.message.t = "null"
    \/ body[1].f.message.t = "str" /\ Strip(body[1].f.message.s) = ""

\* the body is a JSON object with a message that is text, not blank
MessageGiven(body) ==
    /\ IsObject(body)
    /\ "message" \in DOMAIN body[1].f
    /\ body[1].f.message.t = "str"
    /\ Strip(body[1].f.message.s) # ""

\* C6: an authenticated POST /api/assistant whose message is missing, empty or only
\* whitespace (a body that is not valid JSON included) is answered 400 with an error
\* body, and neither the analytics store nor the chat service is contacted.
C6_EmptyMessage ==
    (last.route = "assistant" /\ Authenticated(last) /\ MessageBlank(last.req.body)) =>
        /\ last.status = 400
        /\ "error" \in DOMAIN last.body
        /\ last.queries = <<>>
        /\ last.chat = <<>>

\* the history list of the body, if it has one
HasHistory(body) ==
    /\ "history" \in DOMAIN body[1].f
    /\ body[1].f.history.t = "list"

\* role is "user" or "assistant", content is text that is not blank
WellFormed(entry) ==
    /\ entry.t = "obj"
    /\ Get(entry, "role").t = "str"
    /\ Get(entry, "role").s \in {"user", "assistant"}
    /\ Get(entry, "content").t = "str"
    /\ Strip(Get(entry, "content").s) # ""

AsMessage(entry) == [role |-> Get(entry, "role").s, text |-> Strip(Get(entry, "content").s)]

\* the messages a chat call carried between the two system messages and the question
HistorySent(call) == SubSeq(call.input, 3, Len(call.input) - 1)

\* C7: the history sent to the chat service is the last AI_MAX_CONTEXT_ITEMS
\* well-formed entries of the supplied list, in order; malformed entries are dropped
\* without failing the request.
C7_History ==
    (/\ last.route = "assistant"
     /\ Authenticated(last)
     /\ env.openai
     /\ MessageGiven(last.req.body)
     /\ HasHistory(last.req.body)) =>
        LET kept == LastN(SelectSeq(last.req.body[1].f.history.l, WellFormed),
                          AI_MAX_CONTEXT_ITEMS)
        IN /\ last.status \in {200, 502}
           /\ Len(last.chat) = 1
           /\ HistorySent(last.chat[1]) = [k \in 1..Len(kept) |-> AsMessage(kept[k])]

\* the store context a chat call carried
ContextOf(call) == call.input[2].text[2]

C8Step ==
    (/\ last' # last
     /\ last'.route = "assistant"
     /\ Authenticated(last')
     /\ MessageGiven(last'.req.body)) =>
        LET log == last'.queries
            user == CHOOSE u \in Resolved(session) : TRUE
            called == last'.chat # <<>>
        IN /\ ~env.supabase =>
                 /\ log = <<>>
                 /\ called => ContextOf(last'.chat[1]).pos_summary = [status |-> "not_configured"]
           /\ env.supabase =>
                 /\ Len(log) >= 1
                 /\ log[1].table = "pos_daily_sales"
                 /\ IF log[1].answer.fault
                    THEN /\ Len(log) = 1
                         /\ called =>
                               ContextOf(last'.chat[1]).pos_summary = [status |-> "unavailable"]
                    ELSE /\ Len(log) = 2
                         /\ log[2].table = "pos_item_sales"
                         /\ called =>
                               LET pos == ContextOf(last'.chat[1]).pos_summary
                               IN /\ pos.status = "ok"
                                  /\ pos.days = Len(log[1].answer.rows)
                                  /\ log[1].answer = DailyRows =>
                                        /\ pos.gross_sales = 1062
                                        /\ pos.net_sales = 900
                                        /\ pos.transactions = 3
                                        /\ pos.items_sold = 9
                                  /\ log[2].answer.fault => "top_items" \notin DOMAIN pos
                                  /\ log[2].answer = ItemRows =>
                                        /\ "top_items" \in DOMAIN pos
                                        /\ pos.top_items[1].item_name = "S9"
           /\ called =>
                 LET context == ContextOf(last'.chat[1])
                 IN /\ last'.status = 200 => last'.body.pos_status = context.pos_summary.status
                    /\ \E fetched \in fetch_submissions(
                                         Filters(Some(user.store_number), None, None, None, None)) :
                          LET recent == Take(fetched, RecentLimit)
                          IN /\ context.recent_activity = summarize_submissions(recent)
                             /\ DOMAIN context.activity_counts =
                                   {recent[k].category : k \in 1..Len(recent)}
                             /\ \A c \in DOMAIN context.activity_counts :
                                   context.activity_counts[c] =
                                       Cardinality({k \in 1..Len(recent) : recent[k].category = c})

\* C8: load_pos_summary answers not_configured without a query when the analytics
\* client is not configured, exactly {status: unavailable} when the daily query
\* faults (the item query is then not issued), and ok with the daily totals when the
\* daily query succeeds, a faulting item query counting as no item rows (no
\* top_items); in each case the context carries the store's recent activity and its
\* category counts.
C8_PosSummary == [][C8Step]_vars

\* the item query faulted, the summary is ok without top_items, and the context
\* lists the store's submission
C8_Witness ==
    /\ last.route = "assistant"
    /\ last.status = 200
    /\ Len(last.queries) = 2
    /\ last.queries[2].answer.fault
    /\ last.body.pos_status = "ok"
    /\ Len(ContextOf(last.chat[1]).recent_activity) = 1
    /\ "top_items" \notin DOMAIN ContextOf(last.chat[1]).pos_summary

\* the reply the endpoint gives for a response of the chat service
ReplyFor(response) ==
    LET text == Strip(extract_output_text(response))
    IN IF text = "" THEN FallbackReply ELSE text

\* C11: a request to /api/assistant calls the chat service at most once and never
\* again after a fault; a fault ends the request with 502 and the fixed body
\* 'Assistant is temporarily unavailable.'; a success is answered 200 with reply
\* (the extracted text, or the fallback reply when there is none) and pos_status
\* only, never the store context.
C11_SingleCall ==
    (last.route = "assistant") =>
        /\ Len(last.chat) <= 1
        /\ last.status = 502 => Len(last.chat) = 1 /\ last.chat[1].answer.fault
        /\ last.status = 200 => Len(last.chat) = 1 /\ ~last.chat[1].answer.fault
        /\ last.chat # <<>> =>
              LET answer == last.chat[1].answer
              IN IF answer.fault
                 THEN /\ last.status = 502
                      /\ last.body = [error |-> "Assistant is temporarily unavailable."]
                 ELSE /\ last.status = 200
                      /\ DOMAIN last.body = {"reply", "pos_status"}
                      /\ last.body.reply = ReplyFor(answer.response)
                      /\ last.body.reply # ""
                      /\ answer.response = ChatItems[2] => last.body.reply = "ok"
                      /\ answer.response \in {ChatEmpty[2], ChatBlank[2]} =>
                            last.body.reply = FallbackReply
                      /\ last.body.pos_status = ContextOf(last.chat[1]).pos_summary.status
                      /\ last.body.pos_status \in {"ok", "unavailable", "not_configured"}

\* the chat call faulted and the request ended with 502
C11_Witness ==
    /\ last.route = "assistant"
    /\ Len(last.chat) = 1
    /\ last.chat[1].answer.fault
    /\ last.status = 502

\* the shift submissions the user with this id created
OwnShifts(uid) ==
    {i \in 1..Len(submissions) :
        submissions[i].category = "shift" /\ submissions[i].user_id = uid}

\* the ids listed are n of the rows numbered in S, none of them older than a row
\* of S left out
MostRecent(ids, S, n) ==
    /\ Len(ids) = Min(n, Cardinality(S))
    /\ \A a, b \in 1..Len(ids) : a # b => ids[a] # ids[b]
    /\ \A k \in 1..Len(ids) : \E i \in S : submissions[i].id = ids[k]
    /\ \A i \in S :
          submissions[i].id \notin Range(ids) =>
              \A j \in S :
                  submissions[j].id \in Range(ids) =>
                      TextLeq(submissions[i].created_at, submissions[j].created_at)

C12Step ==
    (/\ last' # last
     /\ last'.route = "dashboard"
     /\ \E u \in Resolved(session) : u.role = ROLE_EMPLOYEE) =>
        /\ last'.view = "dashboard_employee.html"
        /\ MostRecent(last'.rows, OwnShifts(session), DashboardLimit)

\* C12: for an employee, GET /dashboard lists exactly the (up to) five most recent
\* submissions of category 'shift' that this user created, and no submission
\* created by another user.
C12_EmployeeDashboard == [][C12Step]_vars

====
